---- MODULE Spec2Model ----
(***************************************************************************)
(* A model of the gorm101 example programs (table migration, queries,      *)
(* updates, soft delete, transactions) and of the persistence layer they   *)
(* call.  The programs are sequential scripts; every database statement    *)
(* they issue is one step.                                                 *)
(***************************************************************************)
EXTENDS Integers, Sequences, FiniteSets, TLC

(***************************************************************************)
(* Bounds of the model.                                                    *)
(***************************************************************************)
\* seeded rows have ids ExplicitID - SeedSpan .. ExplicitID + SeedSpan
SeedSpan == 1
\* the auto-increment counter starts in ExplicitID - IdSpan .. ExplicitID + IdSpan
IdSpan == 3

(***************************************************************************)
(* Program constants.                                                      *)
(***************************************************************************)
\* transaction(): tx.Create(&User{ID: 20, ...})
ExplicitID == 20
\* BeforeCreate: u.Age = 20
HookAge == 20

NoErr == "nil"
ErrDriver == "ExecutionError: connection"
ErrDuplicate == "ExecutionError: duplicate entry for key PRIMARY"
ErrTxDone == "InvalidTransactionStateError"
ErrRecordNotFound == "RecordNotFound"
ErrMissingWhereClause == "MissingFilterError"

NullMail == "NULL"
DefaultMail == "default@gmail.com"
NullTime == "NULL"

VARIABLES
    table,      \* committed rows of t_users
    nextId,     \* the table's auto-increment counter
    now,        \* the clock (unix seconds) the auto timestamps read
    tx,         \* transaction handle -> "none" | "open" | "closed"
    txTable,    \* rows as seen inside the open transaction
    terminals,  \* transaction handle -> sequence of terminal calls made on it
    pc,         \* position of the running script
    err,        \* error the last call returned to the script
    unitErr,    \* error the unit of work returned
    stmts,      \* statements the unit of work under way has issued, in order
    pre,        \* rows when the operation under way was entered
    last,       \* the last call: its name, arguments and outcome
    schema,     \* whether t_users exists, and its columns
    local       \* the running script's local variables

vars == <<table, nextId, now, tx, txTable, terminals, pc, err, unitErr, stmts, pre,
          last, schema, local>>

Handles == {"managed", "manual"}

NoCall == [op |-> "none"]

(***************************************************************************)
(* The record shape.                                                       *)
(***************************************************************************)
\* User{...}: a zero ID asks for a generated key, a nil Email for the default
User(id, name, age, email) ==
    [id |-> id, name |-> name, age |-> age, email |-> email,
     birthday |-> NullTime, is_deleted |-> 0, update_on |-> 0]

\* a BeforeCreate that leaves the age as it is
BeforeCreateKeepsAge(u) == u

\* func (u *User) BeforeCreate: a zero age becomes 20
BeforeCreate(u) == IF u.age = 0 THEN [u EXCEPT !.age = HookAge] ELSE u

\* `gorm:"default:default@gmail.com"`
EmailDefault(u) == IF u.email = NullMail THEN [u EXCEPT !.email = DefaultMail] ELSE u

\* the columns of t_users each version of User declares, with the field's type
ShapeV0 == {[name |-> "name", type |-> "string"]}

ShapeV1 ==
    {[name |-> "id", type |-> "uint"],
     [name |-> "name", type |-> "string"],
     [name |-> "email", type |-> "*string"],
     [name |-> "age", type |-> "uint8"],
     [name |-> "birthday", type |-> "*time.Time"],
     [name |-> "member_number", type |-> "sql.NullString"],
     [name |-> "activated_at", type |-> "sql.NullTime"],
     [name |-> "created_at", type |-> "int64"],
     [name |-> "update_on", type |-> "int64"]}

ShapeV2 == ShapeV1 \cup {[name |-> "is_deleted", type |-> "soft_delete.DeletedAt"]}

NoTable == [exists |-> FALSE, cols |-> {}]

NoLocals == [none |-> TRUE]

Ids(tbl) == {r.id : r \in tbl}

Max(a, b) == IF a >= b THEN a ELSE b

(***************************************************************************)
(* Create of one record: hooks, defaults, key generation, the insert.      *)
(* fault is the error the driver raises for the statement, if any.         *)
(***************************************************************************)
CreateRow(u, nid, clock) ==
    LET h == EmailDefault(BeforeCreate(u))
    IN  [h EXCEPT !.id = IF u.id = 0 THEN nid ELSE u.id, !.update_on = clock]

CreateErr(tbl, u, nid, fault) ==
    IF fault # NoErr THEN fault
    ELSE IF CreateRow(u, nid, 0).id \in Ids(tbl) THEN ErrDuplicate
    ELSE NoErr

CreateRows(tbl, u, nid, clock, fault) ==
    IF CreateErr(tbl, u, nid, fault) = NoErr
    THEN tbl \cup {CreateRow(u, nid, clock)}
    ELSE tbl

\* the auto-increment counter is not transactional: it keeps what an insert used
CreateNextId(tbl, u, nid, fault) ==
    IF CreateErr(tbl, u, nid, fault) = NoErr
    THEN Max(nid, CreateRow(u, nid, 0).id + 1)
    ELSE nid

Faults == {NoErr, ErrDriver}

(***************************************************************************)
(* The transaction handle: Open -> (Commit | Rollback) -> Closed.          *)
(***************************************************************************)
\* a closed handle that silently accepts what is issued through it
HandleErrSilent(state) == NoErr

\* a statement, Commit or Rollback through a handle that is not open fails
HandleErr(state) == IF state = "open" THEN NoErr ELSE ErrTxDone

\* the handle's state after a terminal call
HandleAfterTerminal(state) == "closed"

\* the committed rows after Commit through a handle in `state`
CommitRows(state, tbl, txt) == IF state = "open" THEN txt ELSE tbl

\* the committed rows after Rollback
RollbackRows(state, tbl, txt) == tbl

\* Begin: a handle on the committed rows
Begin(h) ==
    /\ tx' = [tx EXCEPT ![h] = "open"]
    /\ txTable' = table
    /\ stmts' = <<>>
    /\ pre' = table

\* tx.Create(&u) through handle h; e is the error it returns
TxCreateErr(h, u, fault) ==
    IF HandleErr(tx[h]) # NoErr THEN HandleErr(tx[h])
    ELSE CreateErr(txTable, u, nextId, fault)

TxCreate(h, u, fault) ==
    /\ txTable' = IF HandleErr(tx[h]) = NoErr
                  THEN CreateRows(txTable, u, nextId, now, fault) ELSE txTable
    /\ nextId' = IF HandleErr(tx[h]) = NoErr
                 THEN CreateNextId(txTable, u, nextId, fault) ELSE nextId
    /\ stmts' = Append(stmts, [op |-> "Create", name |-> u.name, state |-> tx[h],
                                err |-> TxCreateErr(h, u, fault)])

\* tx.Commit() / tx.Rollback() through handle h
Terminal(h, call) ==
    /\ table' = IF call = "commit" THEN CommitRows(tx[h], table, txTable)
                ELSE RollbackRows(tx[h], table, txTable)
    /\ tx' = [tx EXCEPT ![h] = HandleAfterTerminal(tx[h])]
    /\ terminals' = [terminals EXCEPT ![h] = Append(@, call)]
    /\ last' = [op |-> call, h |-> h, state |-> tx[h], err |-> HandleErr(tx[h])]

(***************************************************************************)
(* Transaction(fc): the managed form.                                      *)
(***************************************************************************)
\* the terminal call Transaction() makes for what the unit of work returned
TransactionTerminal(uerr) == IF uerr # NoErr THEN "rollback" ELSE "commit"

\* Transaction() replacing the unit's error by one of its own
TransactionReturnWrapped(uerr) == IF uerr # NoErr THEN "transaction failed" ELSE NoErr

\* what Transaction() returns to its caller
TransactionReturn(uerr) == uerr

(***************************************************************************)
(* testTransaction                                                         *)
(***************************************************************************)
\* a unit of work that drops the error of a create and goes on
UnitIgnoresError(e) == FALSE

\* if err := tx.Create(...).Error; err != nil { return err }
UnitStops(e) == e # NoErr

\* err := gormDb.Transaction(func(tx *gorm.DB) error {
ManagedEnter ==
    /\ pc = "start"
    /\ Begin("managed")
    /\ pc' = "m_create1"
    /\ UNCHANGED <<schema, local, table, nextId, now, terminals, err, unitErr, last>>

\* a create of the unit of work: on an error the unit returns it, else goes on
UnitCreate(h, u, fault, next, ret) ==
    /\ TxCreate(h, u, fault)
    /\ IF UnitStops(TxCreateErr(h, u, fault))
       THEN unitErr' = TxCreateErr(h, u, fault) /\ pc' = ret
       ELSE unitErr' = NoErr /\ pc' = next
    /\ UNCHANGED <<schema, local, table, now, tx, terminals, err, pre, last>>

\* tx.Create(&User{Age: 19, Name: "hello-transaction"})
ManagedCreate1 ==
    /\ pc = "m_create1"
    /\ \E fault \in Faults :
          UnitCreate("managed", User(0, "hello-transaction", 19, NullMail), fault,
                     "m_create2", "m_return")

\* tx.Create(&User{Age: 20, Name: "hello-transaction2"}); return nil
ManagedCreate2 ==
    /\ pc = "m_create2"
    /\ \E fault \in Faults :
          UnitCreate("managed", User(0, "hello-transaction2", 20, NullMail), fault,
                     "m_return", "m_return")

\* Transaction() ends the transaction and returns
ManagedReturn ==
    /\ pc = "m_return"
    /\ Terminal("managed", TransactionTerminal(unitErr))
    /\ err' = TransactionReturn(unitErr)
    /\ pc' = "m_check"
    /\ UNCHANGED <<schema, local, nextId, now, txTable, unitErr, stmts, pre>>

\* if err != nil { fmt.Printf(...); return }
ManagedCheck ==
    /\ pc = "m_check"
    /\ pc' = IF err # NoErr THEN "done" ELSE "begin"
    /\ UNCHANGED <<schema, local, table, nextId, now, tx, txTable, terminals, err, unitErr, stmts, pre, last>>

\* tx := gormDb.Begin()
ManualBegin ==
    /\ pc = "begin"
    /\ Begin("manual")
    /\ pc' = "t_create3"
    /\ UNCHANGED <<schema, local, table, nextId, now, terminals, err, unitErr, last>>

\* transaction(tx): tx.Create(&User{Name: "hello-transaction3"})
TransactionCreate3 ==
    /\ pc = "t_create3"
    /\ \E fault \in Faults :
          UnitCreate("manual", User(0, "hello-transaction3", 0, NullMail), fault,
                     "t_create4", "t_return")

\* transaction(tx): tx.Create(&User{Name: "hello-transaction4"})
TransactionCreate4 ==
    /\ pc = "t_create4"
    /\ \E fault \in Faults :
          UnitCreate("manual", User(0, "hello-transaction4", 0, NullMail), fault,
                     "t_create5", "t_return")

\* transaction(tx): tx.Create(&User{ID: 20, Name: "hello-transaction5"}); return nil
TransactionCreate5 ==
    /\ pc = "t_create5"
    /\ \E fault \in Faults :
          UnitCreate("manual", User(ExplicitID, "hello-transaction5", 0, NullMail), fault,
                     "t_return", "t_return")

\* testTransaction committing whatever transaction(tx) returned
ManualAlwaysCommit(e) == "commit"

\* the terminal call testTransaction makes for what transaction(tx) returned
ManualTerminal(e) == IF e # NoErr THEN "rollback" ELSE "commit"

\* where testTransaction goes after tx.Rollback(): it returns
AfterRollback == "done"

\* err = transaction(tx); if err != nil { ...; tx.Rollback(); return }
ManualCheck ==
    /\ pc = "t_return"
    /\ err' = unitErr
    /\ IF ManualTerminal(unitErr) = "rollback"
       THEN /\ Terminal("manual", "rollback")
            /\ pc' = AfterRollback
       ELSE /\ pc' = "t_commit"
            /\ UNCHANGED <<schema, local, table, tx, terminals, last>>
    /\ UNCHANGED <<schema, local, nextId, now, txTable, unitErr, stmts, pre>>

\* tx.Commit()
ManualCommit ==
    /\ pc = "t_commit"
    /\ Terminal("manual", "commit")
    /\ pc' = "done"
    /\ UNCHANGED <<schema, local, nextId, now, txTable, err, unitErr, stmts, pre>>

(***************************************************************************)
(* Rows the table may hold when a script starts.                           *)
(***************************************************************************)
SeedIds == (ExplicitID - SeedSpan)..(ExplicitID + SeedSpan)

SeedRow(i) == [User(i, "seed", 18, DefaultMail) EXCEPT !.update_on = 0]

SeedTables == {{SeedRow(i) : i \in S} : S \in SUBSET SeedIds}

\* the auto-increment counter is above every key in the table
CounterOk(tbl, nid) == \A i \in Ids(tbl) : i < nid

InitTx ==
    /\ table \in SeedTables
    /\ nextId \in (ExplicitID - IdSpan)..(ExplicitID + IdSpan)
    /\ CounterOk(table, nextId)
    /\ now = 1
    /\ tx = [h \in Handles |-> "none"]
    /\ txTable = {}
    /\ terminals = [h \in Handles |-> <<>>]
    /\ pc = "start"
    /\ err = NoErr
    /\ unitErr = NoErr
    /\ stmts = <<>>
    /\ pre = {}
    /\ last = NoCall
    /\ schema = [exists |-> TRUE, cols |-> ShapeV2]
    /\ local = NoLocals

NextTx ==
    \/ ManagedEnter
    \/ ManagedCreate1
    \/ ManagedCreate2
    \/ ManagedReturn
    \/ ManagedCheck
    \/ ManualBegin
    \/ TransactionCreate3
    \/ TransactionCreate4
    \/ TransactionCreate5
    \/ ManualCheck
    \/ ManualCommit

SpecTx == InitTx /\ [][NextTx]_vars

(***************************************************************************)
(* Claims about testTransaction.                                           *)
(***************************************************************************)
ManagedReturned == pc \in {"m_check", "begin"} \/ (pc = "done" /\ tx["manual"] = "none")

ManualReturned == pc = "done" /\ tx["manual"] # "none"

\* C1: a managed transaction whose unit of work returned an error leaves the
\* table as it was when Transaction() was entered; one whose unit returned nil
\* has added both of the unit's rows; before Transaction() returns the
\* committed table shows none of them.
C1_ManagedAtomicity ==
    /\ pc \in {"m_create1", "m_create2", "m_return"} => table = pre
    /\ ManagedReturned =>
          IF unitErr # NoErr
          THEN table = pre
          ELSE /\ pre \subseteq table
               /\ Cardinality(table \ pre) = 2
               /\ {r.name : r \in table \ pre} = {"hello-transaction", "hello-transaction2"}

\* the first create succeeded, the second failed, and nothing was persisted
C1_Witness ==
    /\ pc = "m_check"
    /\ Len(stmts) = 2
    /\ stmts[1].err = NoErr
    /\ stmts[2].err # NoErr
    /\ txTable # pre
    /\ table = pre

\* C2: Transaction() returns exactly the error its unit of work returned and
\* then has rolled back; for a nil return it has committed and returns nil;
\* one terminal call is made per managed transaction.
C2_ManagedOutcome ==
    /\ Len(terminals["managed"]) <= 1
    /\ ManagedReturned =>
          /\ err = unitErr
          /\ terminals["managed"] = <<IF unitErr # NoErr THEN "rollback" ELSE "commit">>
          /\ tx["managed"] = "closed"

\* the unit's second create failed; that error came back and the rollback was made
C2_Witness ==
    /\ pc = "m_check"
    /\ Len(stmts) = 2
    /\ unitErr = ErrDriver
    /\ err = ErrDriver
    /\ terminals["managed"] = <<"rollback">>

\* C4: once testTransaction has returned after Begin(), exactly one terminal
\* call was made on the handle, Rollback if transaction(tx) returned an error
\* and Commit if not; nothing is issued through the handle after it; and when
\* the create with ID 20 fails on a duplicate key, 'hello-transaction3' and
\* 'hello-transaction4' are not persisted.
C4_ManualPairing ==
    /\ Len(terminals["manual"]) <= 1
    /\ \A i \in 1..Len(stmts) : stmts[i].state = "open"
    /\ last.op \in {"commit", "rollback"} => last.state = "open"
    /\ ManualReturned =>
          /\ terminals["manual"] = <<IF unitErr # NoErr THEN "rollback" ELSE "commit">>
          /\ (Len(stmts) = 3 /\ stmts[3].err = ErrDuplicate) =>
                /\ table = pre
                /\ \A r \in table : r.name \notin {"hello-transaction3", "hello-transaction4"}

\* the create with ID 20 failed on a duplicate key after two creates succeeded
C4_Witness ==
    /\ ManualReturned
    /\ Len(stmts) = 3
    /\ stmts[1].err = NoErr
    /\ stmts[2].err = NoErr
    /\ stmts[3].err = ErrDuplicate
    /\ terminals["manual"] = <<"rollback">>
    /\ table = pre

(***************************************************************************)
(* A caller driving one transaction handle in every order.                 *)
(***************************************************************************)
\* statements a caller issues through the handle before the model stops it
MaxStmts == 2

HandleUsers ==
    {User(0, "hello-transaction3", 0, NullMail),
     User(ExplicitID, "hello-transaction5", 0, NullMail)}

HandleBegin ==
    /\ tx["manual"] = "none"
    /\ Begin("manual")
    /\ UNCHANGED <<schema, local, table, nextId, now, terminals, pc, err, unitErr, last>>

HandleCreate ==
    /\ tx["manual"] # "none"
    /\ Len(stmts) < MaxStmts
    /\ \E u \in HandleUsers, fault \in Faults :
          /\ TxCreate("manual", u, fault)
          /\ err' = TxCreateErr("manual", u, fault)
          /\ last' = [op |-> "Create", h |-> "manual", state |-> tx["manual"],
                      err |-> TxCreateErr("manual", u, fault)]
    /\ UNCHANGED <<schema, local, table, now, tx, terminals, pc, unitErr, pre>>

HandleCommit ==
    /\ tx["manual"] # "none"
    /\ Len(terminals["manual"]) < MaxStmts
    /\ Terminal("manual", "commit")
    /\ err' = HandleErr(tx["manual"])
    /\ UNCHANGED <<schema, local, nextId, now, txTable, pc, unitErr, stmts, pre>>

HandleRollback ==
    /\ tx["manual"] # "none"
    /\ Len(terminals["manual"]) < MaxStmts
    /\ Terminal("manual", "rollback")
    /\ err' = HandleErr(tx["manual"])
    /\ UNCHANGED <<schema, local, nextId, now, txTable, pc, unitErr, stmts, pre>>

NextHandle ==
    \/ HandleBegin
    \/ HandleCreate
    \/ HandleCommit
    \/ HandleRollback

SpecHandle == InitTx /\ [][NextHandle]_vars

\* C3: a handle stays Open until its first Commit or Rollback, which closes
\* it; a Closed handle stays Closed, and whatever is issued through it fails
\* with InvalidTransactionStateError and changes no row.
C3_HandleStep ==
    /\ (tx["manual"] = "open" /\ terminals' = terminals) => tx'["manual"] = "open"
    /\ (tx["manual"] = "open" /\ terminals' # terminals) => tx'["manual"] = "closed"
    /\ tx["manual"] = "closed" =>
          /\ tx'["manual"] = "closed"
          /\ err' = ErrTxDone
          /\ last'.err = ErrTxDone
          /\ table' = table
          /\ txTable' = txTable

C3_HandleLifecycle == [][C3_HandleStep]_vars

\* a create was issued through the closed handle and failed
C3_Witness ==
    /\ tx["manual"] = "closed"
    /\ last.op = "Create"
    /\ last.state = "closed"
    /\ err = ErrTxDone
    /\ txTable # table

(***************************************************************************)
(* The Migrator.  DDL is taken to be accepted by the database: HasTable,   *)
(* CreateTable and AutoMigrate fail only for what the schema itself is.    *)
(***************************************************************************)
ErrTableExists == "MigrationError: table already exists"

ColNames(cols) == {c.name : c \in cols}

\* m.HasTable(&User{})
HasTable(sch) == sch.exists

\* m.CreateTable(&User{}): CREATE TABLE, rejected when the table exists
CreateTableErr(sch) == IF sch.exists THEN ErrTableExists ELSE NoErr

CreateTable(sch, shape) == IF sch.exists THEN sch ELSE [exists |-> TRUE, cols |-> shape]

\* m.AutoMigrate(&User{}): creates the table, or adds the columns it lacks
AutoMigrate(sch, shape) ==
    IF ~sch.exists THEN [exists |-> TRUE, cols |-> shape]
    ELSE [exists |-> TRUE,
          cols |-> sch.cols \cup {c \in shape : c.name \notin ColNames(sch.cols)}]

(***************************************************************************)
(* initTable, in its two versions, run by main() of successive program     *)
(* runs.                                                                   *)
(***************************************************************************)
\* program runs in sequence
Runs == 2

Versions == {"v1", "v2"}

\* the User the version's initTable hands to the Migrator
Shape(version) == IF version = "v1" THEN ShapeV1 ELSE ShapeV2

\* an initTable that creates the table whatever HasTable said
InitTableAlwaysCreates(has) == TRUE

\* if !m.HasTable(&User{}) { err := m.CreateTable(&User{}) ... }
InitTableCreates(has) == ~has

\* an initTable that ends with return nil and never reconciles the columns
NeverAutoMigrate(version) == FALSE

\* return nil (v1) / return m.AutoMigrate(&User{}) (v2)
RunsAutoMigrate(version) == version = "v2"

AfterCreate(version) == IF RunsAutoMigrate(version) THEN "auto" ELSE "ret"

\* if !m.HasTable(&User{}) {
InitTableHasTable ==
    /\ pc = "has"
    /\ local' = [local EXCEPT !.has = HasTable(schema), !.before = schema]
    /\ pre' = table
    /\ err' = NoErr
    /\ last' = [op |-> "HasTable", has |-> HasTable(schema), err |-> NoErr]
    /\ pc' = IF InitTableCreates(HasTable(schema)) THEN "create"
             ELSE AfterCreate(local.version)
    /\ UNCHANGED <<table, nextId, now, tx, txTable, terminals, unitErr, stmts, schema>>

\* err := m.CreateTable(&User{}); if err != nil { return err }
InitTableCreateTable ==
    /\ pc = "create"
    /\ schema' = CreateTable(schema, Shape(local.version))
    /\ err' = CreateTableErr(schema)
    /\ last' = [op |-> "CreateTable", has |-> local.has, err |-> CreateTableErr(schema)]
    /\ pc' = IF CreateTableErr(schema) # NoErr THEN "ret" ELSE AfterCreate(local.version)
    /\ UNCHANGED <<table, nextId, now, tx, txTable, terminals, unitErr, stmts, pre, local>>

\* return m.AutoMigrate(&User{})
InitTableAutoMigrate ==
    /\ pc = "auto"
    /\ schema' = AutoMigrate(schema, Shape(local.version))
    /\ err' = NoErr
    /\ last' = [op |-> "AutoMigrate", has |-> local.has, err |-> NoErr]
    /\ pc' = "ret"
    /\ UNCHANGED <<table, nextId, now, tx, txTable, terminals, unitErr, stmts, pre, local>>

\* main(): err = initTable(m); the next program run starts over
MainAfterInitTable ==
    /\ pc = "ret"
    /\ local' = [local EXCEPT !.errs = Append(@, err), !.schemas = Append(@, schema)]
    /\ pc' = IF Len(local.errs) + 1 < Runs THEN "has" ELSE "done"
    /\ UNCHANGED <<table, nextId, now, tx, txTable, terminals, err, unitErr, stmts, pre,
                   last, schema>>

\* a table an earlier hand left with a column no User declares
LegacyCols == ShapeV1 \cup {[name |-> "nickname", type |-> "string"]}

StartSchemas ==
    {NoTable} \cup {[exists |-> TRUE, cols |-> c] : c \in {ShapeV0, ShapeV1, ShapeV2, LegacyCols}}

InitMig ==
    /\ schema \in StartSchemas
    /\ table \in (IF schema.exists THEN SeedTables ELSE {{}})
    /\ nextId = ExplicitID + SeedSpan + 1
    /\ now = 1
    /\ tx = [h \in Handles |-> "none"]
    /\ txTable = {}
    /\ terminals = [h \in Handles |-> <<>>]
    /\ pc = "has"
    /\ err = NoErr
    /\ unitErr = NoErr
    /\ stmts = <<>>
    /\ pre = table
    /\ last = NoCall
    /\ \E v \in Versions :
          local = [version |-> v, start |-> schema, has |-> FALSE, before |-> schema,
                   errs |-> <<>>, schemas |-> <<>>]

NextMig ==
    \/ InitTableHasTable
    \/ InitTableCreateTable
    \/ InitTableAutoMigrate
    \/ MainAfterInitTable

SpecMig == InitMig /\ [][NextMig]_vars

\* C9: initTable run again and again returns no error each time, calls
\* CreateTable only after HasTable reported the table absent, and after the
\* first run no later run changes the schema.
C9_MigrationIdempotent ==
    /\ last.op = "CreateTable" => ~last.has
    /\ \A i \in 1..Len(local.errs) : local.errs[i] = NoErr
    /\ \A i \in 1..Len(local.schemas) : local.schemas[i] = local.schemas[1]

\* two runs are over, the first of which created the table
C9_Witness ==
    /\ pc = "done"
    /\ ~local.start.exists
    /\ Len(local.errs) >= 2
    /\ local.schemas[1].exists
    /\ local.schemas[2] = local.schemas[1]

ZeroUser == User(0, "", 0, NullMail)

\* a User that declares no soft-delete flag
SoftDeleteUndeclared == FALSE

\* IsDeleted soft_delete.DeletedAt: User declares a soft-delete flag
SoftDelete == TRUE

\* the rows a statement sees: soft-deleted rows only when Unscoped
Scope(tbl, unscoped) ==
    IF unscoped \/ ~SoftDelete THEN tbl ELSE {r \in tbl : r.is_deleted = 0}

\* one condition [col, op, val] on a row
Sat(r, c) ==
    CASE c.op = "=" -> r[c.col] = c.val
      [] c.op = "<>" -> r[c.col] # c.val
      [] c.op = "in" -> r[c.col] \in c.val
      [] c.op = "1 = 1" -> TRUE

\* conditions are combined with AND
Matching(tbl, conds, unscoped) ==
    {r \in Scope(tbl, unscoped) : \A c \in conds : Sat(r, c)}

\* a non-zero primary key of the record a call is given is one more condition
ModelConds(m) == IF m.id # 0 THEN {[col |-> "id", op |-> "=", val |-> m.id]} ELSE {}

\* inline conditions: a key, a list of keys
PkEq(i) == {[col |-> "id", op |-> "=", val |-> i]}

PkIn(S) == {[col |-> "id", op |-> "in", val |-> S]}

MinId(rows) == CHOOSE r \in rows : \A q \in rows : r.id <= q.id

MaxId(rows) == CHOOSE r \in rows : \A q \in rows : r.id >= q.id

\* a fetch-one that imposes no order, whichever it is
FetchOneRowsUnordered(op, rows) == rows

\* the rows a fetch-one may return: First by ascending key, Last by
\* descending key, Take any matching row
FetchOneRows(op, rows) ==
    IF rows = {} THEN {}
    ELSE CASE op = "First" -> {MinId(rows)}
           [] op = "Last" -> {MaxId(rows)}
           [] op = "Take" -> rows

\* First / Last / Take into one record
FetchOneErr(rows) == IF rows = {} THEN ErrRecordNotFound ELSE NoErr

\* a Find that reports an empty result as First does
FindErrNotFound(rows) == IF rows = {} THEN ErrRecordNotFound ELSE NoErr

\* Find into a slice
FindErr(rows) == NoErr

(***************************************************************************)
(* testQuery (src/internal/main.go), up to the fetch of all rows.          *)
(***************************************************************************)
\* result = gormDb.<op>(&dest, conds...): dest is the record before the call
FetchOne(op, dest, conds, var, onFound, onNotFound) ==
    LET rows == Matching(table, conds \cup ModelConds(dest), FALSE)
        e == FetchOneErr(rows)
    IN  /\ err' = e
        /\ pre' = table
        /\ IF e = NoErr
           THEN \E r \in FetchOneRows(op, rows) :
                  /\ local' = [local EXCEPT ![var] = r]
                  /\ last' = [op |-> op, conds |-> conds \cup ModelConds(dest),
                              err |-> e, rows |-> {r}]
                  /\ pc' = onFound
           ELSE /\ local' = local
                /\ last' = [op |-> op, conds |-> conds \cup ModelConds(dest),
                            err |-> e, rows |-> {}]
                /\ pc' = onNotFound
        /\ UNCHANGED <<table, nextId, now, tx, txTable, terminals, unitErr, stmts, schema>>

\* result = gormDb.Find(&users, conds...); if result.Error != nil { return }
Find(conds, var, next) ==
    LET rows == Matching(table, conds, FALSE)
        e == FindErr(rows)
    IN  /\ err' = e
        /\ pre' = table
        /\ local' = IF e = NoErr THEN [local EXCEPT ![var] = rows] ELSE local
        /\ last' = [op |-> "Find", conds |-> conds, err |-> e,
                    rows |-> IF e = NoErr THEN rows ELSE {}]
        /\ pc' = IF e = NoErr THEN next ELSE "done"
        /\ UNCHANGED <<table, nextId, now, tx, txTable, terminals, unitErr, stmts, schema>>

\* result := gormDb.First(&firstUser)
QueryFirst ==
    /\ pc = "q_first"
    /\ FetchOne("First", local.firstUser, {}, "firstUser", "q_take", "done")

\* result = gormDb.Take(&takeUser)
QueryTake ==
    /\ pc = "q_take"
    /\ FetchOne("Take", local.takeUser, {}, "takeUser", "q_last", "done")

\* result = gormDb.Last(&lastUser)
QueryLast ==
    /\ pc = "q_last"
    /\ FetchOne("Last", local.lastUser, {}, "lastUser", "q_model_last", "done")

\* result = gormDb.Model(&User{}).Last(&userMap)
QueryModelLast ==
    /\ pc = "q_model_last"
    /\ FetchOne("Last", ZeroUser, {}, "userMap", "q_pk10", "done")

\* result = gormDb.First(&primaryKeyUser, 10): RecordNotFound is printed, not returned on
QueryFirstPk10 ==
    /\ pc = "q_pk10"
    /\ FetchOne("First", local.primaryKeyUser, PkEq(10), "primaryKeyUser", "q_pk204", "q_pk204")

\* result = gormDb.First(&primaryKeyUser, 204)
QueryFirstPk204 ==
    /\ pc = "q_pk204"
    /\ FetchOne("First", local.primaryKeyUser, PkEq(204), "primaryKeyUser", "q_find100", "done")

\* result = gormDb.Find(&users, []int{100, 101, 102})
QueryFind100 ==
    /\ pc = "q_find100"
    /\ Find(PkIn({100, 101, 102}), "users", "q_find200")

\* result = gormDb.Find(&users, []int{200, 201, 202})
QueryFind200 ==
    /\ pc = "q_find200"
    /\ Find(PkIn({200, 201, 202}), "users", "q_id206")

\* result = gormDb.First(&firstUserById, "id = ?", 206)
QueryFirstById206 ==
    /\ pc = "q_id206"
    /\ FetchOne("First", local.firstUserById, PkEq(206), "firstUserById", "q_find_all", "done")

\* result = gormDb.Find(&allUser)
QueryFindAll ==
    /\ pc = "q_find_all"
    /\ Find({}, "allUser", "q_where")

\* the keys testQuery asks for
QueryIds == {10, 100, 101, 102, 200, 201, 202, 204, 206}

QueryTables == {{SeedRow(i) : i \in S} : S \in SUBSET QueryIds}

InitQuery ==
    /\ table \in QueryTables
    /\ nextId = 207
    /\ now = 1
    /\ tx = [h \in Handles |-> "none"]
    /\ txTable = {}
    /\ terminals = [h \in Handles |-> <<>>]
    /\ pc = "q_first"
    /\ err = NoErr
    /\ unitErr = NoErr
    /\ stmts = <<>>
    /\ pre = table
    /\ last = NoCall
    /\ schema = [exists |-> TRUE, cols |-> ShapeV1]
    /\ local = [firstUser |-> ZeroUser, takeUser |-> ZeroUser, lastUser |-> ZeroUser,
                userMap |-> ZeroUser, primaryKeyUser |-> ZeroUser, users |-> {},
                firstUserById |-> ZeroUser, allUser |-> {}]

NextQuery ==
    \/ QueryFirst
    \/ QueryTake
    \/ QueryLast
    \/ QueryModelLast
    \/ QueryFirstPk10
    \/ QueryFirstPk204
    \/ QueryFind100
    \/ QueryFind200
    \/ QueryFirstById206
    \/ QueryFindAll

SpecQuery == InitQuery /\ [][NextQuery]_vars

\* C5: First, Last and Take into one record report RecordNotFound exactly
\* when no row matches, and then hand back no row; Find into a slice with no
\* matching row reports no error and an empty slice.
C5_ZeroMatches ==
    /\ last.op \in {"First", "Last", "Take"} =>
          /\ (last.err = ErrRecordNotFound) = (Matching(table, last.conds, FALSE) = {})
          /\ last.err = ErrRecordNotFound => last.rows = {}
          /\ last.err = NoErr => last.rows # {}
    /\ last.op = "Find" =>
          /\ last.err = NoErr
          /\ last.rows = Matching(table, last.conds, FALSE)

\* Find matched none of its keys in a table that holds rows, after a First by
\* an unknown key had reported RecordNotFound
C5_Witness ==
    /\ pc = "q_find200"
    /\ last.op = "Find"
    /\ last.rows = {}
    /\ last.err = NoErr
    /\ table # {}
    /\ 10 \notin Ids(table)

\* C14: with rows matching and no ordering given, First returns the matching
\* row of the smallest key and Last the one of the largest key; Take returns
\* one matching row, and every matching row is a result Take may give.
C14_ImplicitOrdering ==
    /\ (last.op \in {"First", "Last", "Take"} /\ last.err = NoErr) =>
          \E r \in Matching(table, last.conds, FALSE) :
             /\ last.rows = {r}
             /\ last.op = "First" => \A q \in Matching(table, last.conds, FALSE) : r.id <= q.id
             /\ last.op = "Last" => \A q \in Matching(table, last.conds, FALSE) : r.id >= q.id
    /\ pc = "q_take" =>
          \A r \in Matching(table, {}, FALSE) : ENABLED (QueryTake /\ local'.takeUser = r)

\* First gave the smallest key, Take a key in between, Last the largest
C14_Witness ==
    /\ pc = "q_model_last"
    /\ last.op = "Last"
    /\ local.firstUser.id < local.takeUser.id
    /\ local.takeUser.id < local.lastUser.id
    /\ \A r \in table : local.firstUser.id <= r.id /\ r.id <= local.lastUser.id

(***************************************************************************)
(* Updates: which columns a struct and a map write, the guard against a    *)
(* global update, the rows written and the count reported.                 *)
(***************************************************************************)
Columns == DOMAIN ZeroUser

\* an Updates that writes every field of the struct, as Save does
UpdateSetStructAll(u) == [c \in Columns \ {"id", "is_deleted", "update_on"} |-> u[c]]

\* Updates(User{...}): the fields that are not the zero value
UpdateSetStruct(u) == [c \in {d \in Columns : u[d] # ZeroUser[d]} |-> u[c]]

\* Updates(map[string]interface{}{...}): the keys given
UpdateSetMap(m) == m

\* Where("1 = 1")
WhereTrue == {[col |-> "id", op |-> "1 = 1", val |-> 0]}

\* an update that runs whatever its conditions are
UpdateErrUnguarded(conds, allowGlobal) == NoErr

\* no condition at all and AllowGlobalUpdate not set: ErrMissingWhereClause
UpdateErr(conds, allowGlobal) ==
    IF conds = {} /\ ~allowGlobal THEN ErrMissingWhereClause ELSE NoErr

\* UPDATE t_users SET <set>, update_on = <clock>
UpdatedRow(r, set, clock) ==
    [c \in Columns |->
        IF c \in DOMAIN set THEN set[c]
        ELSE IF c = "update_on" THEN clock
        ELSE r[c]]

UpdateRows(tbl, conds, unscoped, set, clock) ==
    LET M == Matching(tbl, conds, unscoped)
    IN  (tbl \ M) \cup {UpdatedRow(r, set, clock) : r \in M}

\* result.RowsAffected: the rows the statement changed
RowsAffected(tbl, conds, unscoped, set, clock) ==
    Cardinality({r \in Matching(tbl, conds, unscoped) : UpdatedRow(r, set, clock) # r})

\* gormDb.Session(...).Model(&m).Where(wheres).Updates(value)
Update(op, m, wheres, allowGlobal, unscoped, value, set) ==
    LET conds == wheres \cup ModelConds(m)
        e == UpdateErr(conds, allowGlobal)
    IN  /\ err' = e
        /\ pre' = table
        /\ table' = IF e = NoErr THEN UpdateRows(table, conds, unscoped, set, now)
                    ELSE table
        /\ last' = [op |-> op, model |-> m.id, wheres |-> wheres, allow |-> allowGlobal,
                    unscoped |-> unscoped, value |-> value, conds |-> conds, err |-> e,
                    affected |-> IF e = NoErr
                                 THEN RowsAffected(table, conds, unscoped, set, now)
                                 ELSE 0]
        /\ local' = [calls |-> local.calls + 1, prev |-> last]
        /\ UNCHANGED <<nextId, now, tx, txTable, terminals, pc, unitErr, stmts, schema>>

\* Delete on a User: UPDATE t_users SET is_deleted = <clock>; without the
\* flag, DELETE FROM t_users
DeleteRows(tbl, conds, clock) ==
    LET M == Matching(tbl, conds, FALSE)
    IN  IF SoftDelete
        THEN (tbl \ M) \cup {[r EXCEPT !.is_deleted = clock] : r \in M}
        ELSE tbl \ M

\* gormDb.Session(...).Where(wheres).Delete(&m, inline...)
Delete(m, wheres, allowGlobal) ==
    LET conds == wheres \cup ModelConds(m)
        e == UpdateErr(conds, allowGlobal)
    IN  /\ err' = e
        /\ pre' = table
        /\ table' = IF e = NoErr THEN DeleteRows(table, conds, now) ELSE table
        /\ last' = [op |-> "Delete", model |-> m.id, wheres |-> wheres,
                    allow |-> allowGlobal, unscoped |-> FALSE, conds |-> conds, err |-> e,
                    rows |-> IF e = NoErr THEN Matching(table, conds, FALSE) ELSE {},
                    affected |-> IF e = NoErr
                                 THEN Cardinality(Matching(table, conds, FALSE))
                                 ELSE 0]
        /\ local' = [calls |-> local.calls + 1, prev |-> last]
        /\ UNCHANGED <<nextId, now, tx, txTable, terminals, pc, unitErr, stmts, schema>>

\* Where("is_deleted = ?", 0)
WhereLive == {[col |-> "is_deleted", op |-> "=", val |-> 0]}

\* Where("is_deleted != ?", 0)
WhereDeleted == {[col |-> "is_deleted", op |-> "<>", val |-> 0]}

(***************************************************************************)
(* testUpdate's calls of Updates, with the records, conditions and         *)
(* sessions it uses, on any row.                                           *)
(***************************************************************************)
\* calls of one run
MaxUpdates == 1

\* the clock at the start reads 1 .. 1 + MaxClock
MaxClock == 1

StructValues ==
    {[ZeroUser EXCEPT !.name = "hello-update", !.email = "hello-update@gmail.com"],
     [ZeroUser EXCEPT !.age = 35, !.birthday = "b10year"]}

MapValues ==
    {[name |-> "hello-update-map", age |-> 0, birthday |-> "b1year"],
     [is_deleted |-> 0]}

\* the records Model() is given: a row read before, or User{}
Models(tbl) == tbl \cup {ZeroUser}

\* result = gormDb.Model(&lastUser).Updates(User{...})
UpdatesStruct ==
    /\ local.calls < MaxUpdates
    /\ \E m \in Models(table), w \in {{}, WhereTrue}, allow \in BOOLEAN, u \in StructValues :
          Update("UpdatesStruct", m, w, allow, FALSE, u, UpdateSetStruct(u))

\* result = gormDb.Model(&lastUser).Updates(map[string]interface{}{...})
UpdatesMap ==
    /\ local.calls < MaxUpdates
    /\ \E m \in Models(table), w \in {{}, WhereTrue}, allow \in BOOLEAN, v \in MapValues :
          Update("UpdatesMap", m, w, allow, FALSE, v, UpdateSetMap(v))

\* result = gormDb.Session(...).Delete(&User{}, conds...)
DeleteBatch ==
    /\ local.calls < MaxUpdates
    /\ \E w \in {{}, WhereLive}, allow \in BOOLEAN : Delete(ZeroUser, w, allow)

\* the keys of the rows testUpdate and testDelete work on
WriteIds == {10, 217}

\* a stored row, written at time 1: live (del = 0) or soft-deleted then
StoredRow(i, del) ==
    [User(i, "sharpe-x", 20, DefaultMail) EXCEPT !.is_deleted = del, !.update_on = 1]

WriteTables ==
    {{StoredRow(i, f[i]) : i \in S} : S \in SUBSET WriteIds, f \in [WriteIds -> {0, 1}]}

InitUpdate ==
    /\ table \in WriteTables
    /\ nextId = 218
    /\ now \in 1..(1 + MaxClock)
    /\ tx = [h \in Handles |-> "none"]
    /\ txTable = {}
    /\ terminals = [h \in Handles |-> <<>>]
    /\ pc = "update"
    /\ err = NoErr
    /\ unitErr = NoErr
    /\ stmts = <<>>
    /\ pre = table
    /\ last = NoCall
    /\ schema = [exists |-> TRUE, cols |-> ShapeV2]
    /\ local = [calls |-> 0, prev |-> NoCall]

NextUpdate ==
    \/ UpdatesStruct
    \/ UpdatesMap
    \/ DeleteBatch

SpecUpdate == InitUpdate /\ [][NextUpdate]_vars

\* the row of tbl with key i
RowOf(tbl, i) == CHOOSE r \in tbl : r.id = i

\* the rows an update was aimed at: live rows meeting its conditions
Aimed(tbl, conds) == {r \in tbl : r.is_deleted = 0 /\ \A c \in conds : Sat(r, c)}

\* the columns and values the last update was asked to write
UpdateSetOf(call) ==
    CASE call.op = "UpdatesStruct" ->
           [c \in {d \in Columns : call.value[d] # ZeroUser[d]} |-> call.value[c]]
      [] call.op = "UpdatesMap" -> call.value
      [] call.op = "Delete" -> [is_deleted |-> now]

\* C6: Updates with a struct writes the fields that are not zero and leaves
\* the stored value of every zero field; Updates with a map writes exactly
\* its keys, zero values too; besides update_on nothing else changes, and no
\* other row changes.
C6_StructVersusMap ==
    (last.op \in {"UpdatesStruct", "UpdatesMap"} /\ last.err = NoErr) =>
        /\ Ids(table) = Ids(pre)
        /\ Cardinality(table) = Cardinality(pre)
        /\ \A r \in pre :
              IF r \in Aimed(pre, last.conds)
              THEN \A c \in Columns \ {"update_on"} :
                     RowOf(table, r.id)[c] =
                        IF last.op = "UpdatesStruct"
                        THEN (IF last.value[c] # ZeroUser[c] THEN last.value[c] ELSE r[c])
                        ELSE (IF c \in DOMAIN last.value THEN last.value[c] ELSE r[c])
              ELSE r \in table

\* a struct with Age 0 left the stored age 20 and wrote the name
C6_Witness ==
    /\ last.op = "UpdatesStruct"
    /\ last.err = NoErr
    /\ last.value.age = 0
    /\ last.model = 217
    /\ RowOf(pre, 217).age = 20
    /\ RowOf(table, 217).age = 20
    /\ RowOf(table, 217).name = "hello-update"

\* C7: an update on a model without a key, with no condition and without
\* AllowGlobalUpdate, fails with MissingFilterError and changes no row; with
\* AllowGlobalUpdate it succeeds, writes every row that is not soft-deleted,
\* leaves the soft-deleted ones, and RowsAffected is the number of rows changed.
C7_GlobalUpdateGuard ==
    (last.op \in {"UpdatesStruct", "UpdatesMap", "Delete"} /\ last.model = 0
        /\ last.wheres = {}) =>
        IF ~last.allow
        THEN /\ last.err = ErrMissingWhereClause
             /\ table = pre
        ELSE /\ last.err = NoErr
             /\ Ids(table) = Ids(pre)
             /\ \A r \in pre :
                   IF r.is_deleted = 0
                   THEN \A c \in DOMAIN UpdateSetOf(last) :
                          RowOf(table, r.id)[c] = UpdateSetOf(last)[c]
                   ELSE r \in table
             /\ last.affected = Cardinality(pre \ table)

\* the global update was refused and nothing changed although rows were there
C7_Witness ==
    /\ last.op = "UpdatesStruct"
    /\ last.model = 0
    /\ last.wheres = {}
    /\ ~last.allow
    /\ last.err = ErrMissingWhereClause
    /\ \E r \in table : r.is_deleted = 0
    /\ table = pre

(***************************************************************************)
(* testDelete's calls, and the reads and updates that show what a soft     *)
(* delete leaves, in every order.                                          *)
(***************************************************************************)
\* calls of one run
MaxDeleteCalls == 2

\* result = gormDb.Where("is_deleted = ?", 0).Delete(firstUser)
DeleteRecord ==
    /\ local.calls < MaxDeleteCalls
    /\ \E m \in Models(table) : Delete(m, WhereLive, FALSE)

\* result = gormDb.Delete(&User{}, 10)
DeleteByKey ==
    /\ local.calls < MaxDeleteCalls
    /\ \E i \in WriteIds : Delete(ZeroUser, PkEq(i), FALSE)

\* result = gormDb.Delete(&User{}, "is_deleted = ?", 0)
DeleteWhere ==
    /\ local.calls < MaxDeleteCalls
    /\ Delete(ZeroUser, WhereLive, FALSE)

\* result = gormDb.Model(&User{}).Unscoped().Where("is_deleted != ?", 0).Updates(map{"is_deleted": 0})
RestoreUnscoped ==
    /\ local.calls < MaxDeleteCalls
    /\ Update("UpdatesMap", ZeroUser, WhereDeleted, FALSE, TRUE,
              [is_deleted |-> 0], UpdateSetMap([is_deleted |-> 0]))

\* result = gormDb.Model(&User{}).Where("1 = 1").Updates(User{Age: 19})
UpdateWhereTrue ==
    /\ local.calls < MaxDeleteCalls
    /\ Update("UpdatesStruct", ZeroUser, WhereTrue, FALSE, FALSE,
              [ZeroUser EXCEPT !.age = 19], UpdateSetStruct([ZeroUser EXCEPT !.age = 19]))

\* a read by the caller: op into dest, scoped or Unscoped
Read(op, conds, unscoped) ==
    LET rows == Matching(table, conds, unscoped)
        e == IF op = "Find" THEN FindErr(rows) ELSE FetchOneErr(rows)
    IN  /\ err' = e
        /\ pre' = table
        /\ last' = [op |-> op, conds |-> conds, unscoped |-> unscoped, err |-> e,
                    rows |-> IF op = "Find" THEN rows ELSE FetchOneRows(op, rows)]
        /\ local' = [calls |-> local.calls + 1, prev |-> last]
        /\ UNCHANGED <<table, nextId, now, tx, txTable, terminals, pc, unitErr, stmts,
                       schema>>

\* result := gormDb.Model(&User{}).First(&firstUser)
FirstRecord ==
    /\ local.calls < MaxDeleteCalls
    /\ Read("First", {}, FALSE)

\* result = gormDb.Find(&allUser), scoped or Unscoped
FindRecords ==
    /\ local.calls < MaxDeleteCalls
    /\ \E unscoped \in BOOLEAN : Read("Find", {}, unscoped)

InitDelete ==
    /\ table \in WriteTables
    /\ nextId = 218
    /\ now \in 1..(1 + MaxClock)
    /\ tx = [h \in Handles |-> "none"]
    /\ txTable = {}
    /\ terminals = [h \in Handles |-> <<>>]
    /\ pc = "delete"
    /\ err = NoErr
    /\ unitErr = NoErr
    /\ stmts = <<>>
    /\ pre = table
    /\ last = NoCall
    /\ schema = [exists |-> TRUE, cols |-> ShapeV2]
    /\ local = [calls |-> 0, prev |-> NoCall]

NextDelete ==
    \/ DeleteRecord
    \/ DeleteByKey
    \/ DeleteWhere
    \/ RestoreUnscoped
    \/ UpdateWhereTrue
    \/ FirstRecord
    \/ FindRecords

SpecDelete == InitDelete /\ [][NextDelete]_vars

\* C8: Delete removes no row: each row it was aimed at keeps its key and
\* columns and has its flag set from 0 to a non-zero marker; a scoped First,
\* Find, Updates or Delete leaves out every soft-deleted row; an Unscoped Find
\* or Updates reaches them.
C8_SoftDelete ==
    /\ (last.op = "Delete" /\ last.err = NoErr) =>
          /\ Ids(table) = Ids(pre)
          /\ Cardinality(table) = Cardinality(pre)
          /\ \A r \in pre :
                IF r \in Aimed(pre, last.conds)
                THEN /\ RowOf(table, r.id).is_deleted # 0
                     /\ [RowOf(table, r.id) EXCEPT !.is_deleted = 0] = r
                ELSE r \in table
    /\ (last.op \in {"First", "Find"} /\ ~last.unscoped) =>
          /\ \A r \in last.rows : r.is_deleted = 0
          /\ last.op = "Find" => last.rows = {r \in table : r.is_deleted = 0}
    /\ (last.op \in {"UpdatesStruct", "UpdatesMap", "Delete"} /\ ~last.unscoped) =>
          \A r \in pre : r.is_deleted # 0 => r \in table
    /\ (last.op = "Find" /\ last.unscoped) => last.rows = table
    /\ (last.op = "UpdatesMap" /\ last.unscoped /\ last.err = NoErr) =>
          \A r \in pre : r.is_deleted # 0 => RowOf(table, r.id).is_deleted = 0

\* a Delete marked a live row, and the scoped Find after it left the row out
\* of a table that still holds it
C8_Witness ==
    /\ last.op = "Find"
    /\ ~last.unscoped
    /\ local.prev.op = "Delete"
    /\ local.prev.rows # {}
    /\ \A r \in local.prev.rows :
          /\ r.is_deleted = 0
          /\ r.id \in Ids(table)
          /\ r.id \notin Ids(last.rows)

(***************************************************************************)
(* testCreate's creates of one record, through the database handle or      *)
(* through a session with SkipHooks, in every order.                       *)
(***************************************************************************)
\* creates of one run
MaxCreates == 2

\* the hooks a Create runs on the record: BeforeCreate, unless the session skips hooks
CreateHooks(u, skipHooks) == IF skipHooks THEN u ELSE BeforeCreate(u)

\* the row a Create through a session writes
SessionCreateRow(u, nid, clock, skipHooks) ==
    LET h == EmailDefault(CreateHooks(u, skipHooks))
    IN  [h EXCEPT !.id = IF u.id = 0 THEN nid ELSE u.id, !.update_on = clock]

\* user, skipUser of testCreate, and a record without age and mail
CreateUsers ==
    {User(0, "sharpe-x", 18, NullMail),
     User(0, "sharpe-skip-hook", 0, "test@gmail.com"),
     User(0, "sharpe1", 0, NullMail)}

\* result := gormDb.Session(&gorm.Session{SkipHooks: skip}).Create(&u)
SessionCreate(u, skip, fault) ==
    LET row == SessionCreateRow(u, nextId, now, skip)
        e == IF fault # NoErr THEN fault
             ELSE IF row.id \in Ids(table) THEN ErrDuplicate
             ELSE NoErr
    IN  /\ err' = e
        /\ pre' = table
        /\ table' = IF e = NoErr THEN table \cup {row} ELSE table
        /\ nextId' = IF e = NoErr THEN Max(nextId, row.id + 1) ELSE nextId
        /\ last' = [op |-> "Create", value |-> u, skip |-> skip, err |-> e,
                    id |-> IF e = NoErr THEN row.id ELSE 0]
        /\ local' = [calls |-> local.calls + 1, prev |-> last]
        /\ UNCHANGED <<now, tx, txTable, terminals, pc, unitErr, stmts, schema>>

\* result := gormDb.Create(&user)
CreateRecord ==
    /\ local.calls < MaxCreates
    /\ \E u \in CreateUsers, fault \in Faults : SessionCreate(u, FALSE, fault)

\* result = gormDb.Session(&gorm.Session{SkipHooks: true}).Create(&skipUser)
CreateSkipHooks ==
    /\ local.calls < MaxCreates
    /\ \E u \in CreateUsers, fault \in Faults : SessionCreate(u, TRUE, fault)

InitCreate ==
    /\ table \in SeedTables
    /\ nextId = ExplicitID + SeedSpan + 1
    /\ now = 1
    /\ tx = [h \in Handles |-> "none"]
    /\ txTable = {}
    /\ terminals = [h \in Handles |-> <<>>]
    /\ pc = "create"
    /\ err = NoErr
    /\ unitErr = NoErr
    /\ stmts = <<>>
    /\ pre = table
    /\ last = NoCall
    /\ schema = [exists |-> TRUE, cols |-> ShapeV1]
    /\ local = [calls |-> 0, prev |-> NoCall]

NextCreate ==
    \/ CreateRecord
    \/ CreateSkipHooks

SpecCreate == InitCreate /\ [][NextCreate]_vars

\* C11: a Create of one User that succeeds adds one row; its age is 20 when
\* the record's age was 0 and the record's age otherwise; through a session
\* with SkipHooks its age is the record's, 0 included; and a Create that
\* follows one with SkipHooks runs the hook again.
C11_PreCreateHook ==
    (last.op = "Create" /\ last.err = NoErr) =>
        /\ Cardinality(table \ pre) = 1
        /\ pre \subseteq table
        /\ \A r \in table \ pre :
              /\ r.id = last.id
              /\ r.name = last.value.name
              /\ r.age = IF last.skip THEN last.value.age
                         ELSE IF last.value.age = 0 THEN 20
                         ELSE last.value.age

\* skipUser was stored with age 0 through the SkipHooks session, and the
\* Create after it, on the plain handle, stored age 20 for a record of age 0
C11_Witness ==
    /\ last.op = "Create"
    /\ last.err = NoErr
    /\ ~last.skip
    /\ last.value.age = 0
    /\ RowOf(table, last.id).age = 20
    /\ local.prev.op = "Create"
    /\ local.prev.skip
    /\ local.prev.err = NoErr
    /\ local.prev.value.name = "sharpe-skip-hook"
    /\ RowOf(table, local.prev.id).age = 0

(***************************************************************************)
(* Select and Omit on an update: the columns a statement writes when it    *)
(* names columns to include, to exclude, or both.                          *)
(***************************************************************************)
ErrParameter == "ParameterError"

\* calls of one run
MaxSelectCalls == 2

\* the columns a statement names, each with whether it is kept: Select("*")
\* names every column, and Omit takes a column out whatever Select said
SelectColumns(selects, omits) ==
    [c \in (IF "*" \in selects THEN Columns ELSE selects) \cup omits |-> c \notin omits]

\* a statement with Select writes nothing it did not select
Restricted(selects) == selects # {}

\* Updates(User{...}) under Select/Omit: a selected field is written, zero or
\* not; without Select a field that is not omitted is written when not zero
UpdateSetSelectedStruct(u, selects, omits) ==
    LET sc == SelectColumns(selects, omits)
        written(c) == IF c \in DOMAIN sc THEN sc[c]
                      ELSE ~Restricted(selects) /\ u[c] # ZeroUser[c]
    IN  [c \in {d \in Columns \ {"update_on"} : written(d)} |-> u[c]]

\* Updates(map) under Select/Omit: a key is written when selected, or when
\* there is no Select and it is not omitted
UpdateSetSelectedMap(m, selects, omits) ==
    LET sc == SelectColumns(selects, omits)
        written(c) == IF c \in DOMAIN sc THEN sc[c] ELSE ~Restricted(selects)
    IN  [c \in {d \in DOMAIN m : written(d)} |-> m[c]]

\* a statement that is refused when it names columns to include and to exclude
SelectOmitErrConflict(selects, omits) ==
    IF selects # {} /\ omits # {} THEN ErrParameter ELSE NoErr

\* Select(...).Omit(...): both lists on one statement are accepted
SelectOmitErr(selects, omits) == NoErr

\* gormDb.Model(&m).Select(selects).Omit(omits).Updates(value)
UpdateColumns(op, m, selects, omits, value, set) ==
    LET conds == ModelConds(m)
        e == IF SelectOmitErr(selects, omits) # NoErr THEN SelectOmitErr(selects, omits)
             ELSE UpdateErr(conds, FALSE)
    IN  /\ err' = e
        /\ pre' = table
        /\ table' = IF e = NoErr THEN UpdateRows(table, conds, FALSE, set, now) ELSE table
        /\ last' = [op |-> op, model |-> m.id, selects |-> selects, omits |-> omits,
                    value |-> value, conds |-> conds, err |-> e,
                    affected |-> IF e = NoErr
                                 THEN RowsAffected(table, conds, FALSE, set, now)
                                 ELSE 0]
        /\ local' = [calls |-> local.calls + 1, prev |-> last]
        /\ UNCHANGED <<nextId, now, tx, txTable, terminals, pc, unitErr, stmts, schema>>

\* map[string]interface{}{"name": ..., "age": 18}
SelectMapValue(name) == [name |-> name, age |-> 18]

\* result = gormDb.Model(&lastUser).Select("name").Updates(map{"name": "hello-updates-select", "age": 18})
UpdatesSelectName ==
    /\ local.calls < MaxSelectCalls
    /\ \E m \in Models(table) :
          UpdateColumns("SelectName", m, {"name"}, {}, SelectMapValue("hello-updates-select"),
              UpdateSetSelectedMap(SelectMapValue("hello-updates-select"), {"name"}, {}))

\* result = gormDb.Model(&lastUser).Omit("name").Updates(map{"name": "hello-updates-select2", "age": 18})
UpdatesOmitName ==
    /\ local.calls < MaxSelectCalls
    /\ \E m \in Models(table) :
          UpdateColumns("OmitName", m, {}, {"name"}, SelectMapValue("hello-updates-select2"),
              UpdateSetSelectedMap(SelectMapValue("hello-updates-select2"), {}, {"name"}))

\* User{Name: "1223333", Age: 0, Birthday: &b10year}
SelectOmitValue == [ZeroUser EXCEPT !.name = "1223333", !.birthday = "b10year"]

\* a call that leaves the key out of Omit
SelectOmitOmitsEmailOnly == {"email"}

\* Omit("email", "id")
SelectOmitOmits == {"email", "id"}

\* result = gormDb.Model(&lastUser).Select("*").Omit("email", "id").Updates(User{...})
UpdatesSelectOmit ==
    /\ local.calls < MaxSelectCalls
    /\ \E m \in Models(table) :
          UpdateColumns("SelectOmit", m, {"*"}, SelectOmitOmits, SelectOmitValue,
              UpdateSetSelectedStruct(SelectOmitValue, {"*"}, SelectOmitOmits))

NextSelect ==
    \/ UpdatesSelectName
    \/ UpdatesOmitName
    \/ UpdatesSelectOmit

SpecSelect == InitUpdate /\ [][NextSelect]_vars

\* the rows of tbl other than those a call with conditions conds was aimed at
NotAimed(tbl, conds) == tbl \ Aimed(tbl, conds)

C17_SelectOmitOverride ==
    (last.op \in {"SelectOmit", "SelectName", "OmitName"} /\ last.err = NoErr) =>
        /\ Ids(table) = Ids(pre)
        /\ Cardinality(table) = Cardinality(pre)
        /\ NotAimed(pre, last.conds) \subseteq table
        /\ \A r \in Aimed(pre, last.conds) :
              LET w == RowOf(table, r.id)
              IN  CASE last.op = "SelectOmit" ->
                         /\ w.name = last.value.name
                         /\ w.age = 0
                         /\ w.birthday = last.value.birthday
                         /\ w.is_deleted = 0
                         /\ w.email = r.email
                         /\ w.id = r.id
                    [] last.op = "SelectName" ->
                         /\ w.name = last.value.name
                         /\ \A c \in Columns \ {"name", "update_on"} : w[c] = r[c]
                    [] last.op = "OmitName" ->
                         /\ w.age = last.value.age
                         /\ \A c \in Columns \ {"age", "update_on"} : w[c] = r[c]

\* the stored age 20 of row 217 became 0 and its mail stayed, after a
\* Select("name") had left the age and written the name
C17_Witness ==
    /\ last.op = "SelectOmit"
    /\ last.err = NoErr
    /\ last.model = 217
    /\ RowOf(pre, 217).age = 20
    /\ RowOf(table, 217).age = 0
    /\ RowOf(table, 217).email = DefaultMail
    /\ local.prev.op = "SelectName"
    /\ local.prev.err = NoErr
    /\ local.prev.model = 217
    /\ RowOf(pre, 217).name = "hello-updates-select"

(***************************************************************************)
(* Ordering: Order calls on one statement, and the sequence of rows a Find *)
(* with an ORDER BY returns.                                               *)
(***************************************************************************)
\* the ordered table holds rows with keys 1 .. OrderRows
OrderRows == 3

\* the database's collation of the names in the table
Collation == <<"sharpe-x", "sharpe1", "sharpe2">>

Rank(name) == CHOOSE i \in 1..Len(Collation) : Collation[i] = name

\* the value a row is sorted on for a column
SortValue(r, col) == IF col = "name" THEN Rank(r.name) ELSE r[col]

\* a comes before b under the ORDER BY keys; rows equal on every key come in
\* the order the engine scans the table in, by ascending or descending key
RECURSIVE Before(_, _, _, _)
Before(a, b, keys, scan) ==
    IF keys = <<>>
    THEN (IF scan = "asc" THEN a.id < b.id ELSE a.id > b.id)
    ELSE LET k == Head(keys)
             va == SortValue(a, k.col)
             vb == SortValue(b, k.col)
         IN  IF va = vb THEN Before(a, b, Tail(keys), scan)
             ELSE IF k.desc THEN va > vb
             ELSE va < vb

\* SELECT * FROM t_users WHERE is_deleted = 0 ORDER BY keys
RECURSIVE OrderedRows(_, _, _)
OrderedRows(rows, keys, scan) ==
    IF rows = {} THEN <<>>
    ELSE LET m == CHOOSE r \in rows : \A q \in rows \ {r} : Before(r, q, keys, scan)
         IN  <<m>> \o OrderedRows(rows \ {m}, keys, scan)

\* an Order call that takes the place of the ordering the statement had
OrderReplaces(orders, arg) == arg

\* Order(arg) on a statement: the keys of arg go after the keys it has
Order(orders, arg) == orders \o arg

\* the ORDER BY of a statement after a chain of Order calls
RECURSIVE OrderChain(_)
OrderChain(calls) ==
    IF calls = <<>> THEN <<>>
    ELSE Order(OrderChain(SubSeq(calls, 1, Len(calls) - 1)), calls[Len(calls)])

\* "age desc" and "name"
AgeDesc == <<[col |-> "age", desc |-> TRUE]>>

ByName == <<[col |-> "name", desc |-> FALSE]>>

\* gormDb.Order("age desc, name")
OrderUserCalls == <<AgeDesc \o ByName>>

\* a chain that orders by name before age
OrderUser2CallsNameFirst == <<ByName, AgeDesc>>

\* gormDb.Order("age desc").Order("name")
OrderUser2Calls == <<AgeDesc, ByName>>

\* result = gormDb.Order(...).Find(&dest)
FindOrdered(calls, var, next) ==
    LET rows == OrderedRows(Matching(table, {}, FALSE), OrderChain(calls), local.scan)
    IN  /\ err' = NoErr
        /\ pre' = table
        /\ local' = [local EXCEPT ![var] = rows]
        /\ last' = [op |-> "Find", orders |-> OrderChain(calls), err |-> NoErr,
                    rows |-> rows]
        /\ pc' = next
        /\ UNCHANGED <<table, nextId, now, tx, txTable, terminals, unitErr, stmts, schema>>

\* result = gormDb.Order("age desc, name").Find(&orderUser)
QueryOrder ==
    /\ pc = "q_order"
    /\ FindOrdered(OrderUserCalls, "orderUser", "q_order2")

\* result = gormDb.Order("age desc").Order("name").Find(&orderUser2)
QueryOrderOrder ==
    /\ pc = "q_order2"
    /\ FindOrdered(OrderUser2Calls, "orderUser2", "q_limit")

OrderRow(i, name, age) == [User(i, name, age, DefaultMail) EXCEPT !.update_on = 1]

\* testQuery has found a first row by now: the table is not empty
OrderTables ==
    {{OrderRow(i, f[i].name, f[i].age) : i \in S} :
        S \in (SUBSET (1..OrderRows)) \ {{}},
        f \in [1..OrderRows -> [name : {"sharpe1", "sharpe2"}, age : {18, 20}]]}

InitOrder ==
    /\ table \in OrderTables
    /\ nextId = OrderRows + 1
    /\ now = 1
    /\ tx = [h \in Handles |-> "none"]
    /\ txTable = {}
    /\ terminals = [h \in Handles |-> <<>>]
    /\ pc = "q_order"
    /\ err = NoErr
    /\ unitErr = NoErr
    /\ stmts = <<>>
    /\ pre = table
    /\ last = NoCall
    /\ schema = [exists |-> TRUE, cols |-> ShapeV2]
    /\ \E scan \in {"asc", "desc"} :
          local = [scan |-> scan, orderUser |-> <<>>, orderUser2 |-> <<>>]

NextOrder ==
    \/ QueryOrder
    \/ QueryOrderOrder

SpecOrder == InitOrder /\ [][NextOrder]_vars

\* C13: Order("age desc").Order("name").Find returns the rows in the same
\* sequence as Order("age desc, name").Find, whatever the table holds: every
\* row once, by descending age, and by name among rows of one age.
C13_OrderAppends ==
    pc = "q_limit" =>
        /\ local.orderUser2 = local.orderUser
        /\ Len(local.orderUser2) = Cardinality(table)
        /\ {local.orderUser2[i] : i \in 1..Len(local.orderUser2)} = table
        /\ \A i, j \in 1..Len(local.orderUser2) :
              i < j =>
                 /\ local.orderUser2[i].age >= local.orderUser2[j].age
                 /\ local.orderUser2[i].age = local.orderUser2[j].age =>
                       Rank(local.orderUser2[i].name) <= Rank(local.orderUser2[j].name)

\* both statements ran on rows where the name alone would order otherwise:
\* an older 'sharpe2' came before a younger 'sharpe1'
C13_Witness ==
    /\ pc = "q_limit"
    /\ Len(local.orderUser2) >= 2
    /\ local.orderUser = local.orderUser2
    /\ local.orderUser2[1].age = 20
    /\ local.orderUser2[1].name = "sharpe2"
    /\ local.orderUser2[2].age = 18
    /\ local.orderUser2[2].name = "sharpe1"

(***************************************************************************)
(* CreateInBatches: the records are cut into sub-batches, one INSERT per   *)
(* sub-batch.  A statement is issued, and later answered by the database;  *)
(* up to `lanes` statements are under way at a time (one: each statement   *)
(* is answered before the next is issued).                                 *)
(***************************************************************************)
\* the batch sizes CreateInBatches is called with are 1 .. MaxBatchSize
MaxBatchSize == 3

\* statements of one call under way at a time
Lanes == 2

ErrTimeout == "ExecutionError: timeout"

BatchFaults == {NoErr, ErrDriver, ErrTimeout}

\* var batchUsers = []User{{Name: "sharpe-batches-1"}, ...}
BatchUsers ==
    <<User(0, "sharpe-batches-1", 0, NullMail), User(0, "sharpe-batches-2", 0, NullMail),
      User(0, "sharpe-batches-3", 0, NullMail), User(0, "sharpe-batches-4", 0, NullMail),
      User(0, "sharpe-batches-5", 0, NullMail), User(0, "sharpe-batches-6", 0, NullMail)>>

\* gorm.Config{SkipDefaultTransaction: false}: a write runs in a transaction
SkipDefaultTransaction == FALSE

Min(a, b) == IF a <= b THEN a ELSE b

\* the number of sub-batches of n records cut by k
NumBatches(n, k) == (n + k - 1) \div k

\* a cut that drops the records left over after the last full sub-batch
SubBatchFullOnly(n, k, i) ==
    IF i * k <= n THEN [j \in 1..k |-> (i - 1) * k + j] ELSE <<>>

\* the records (by position) of sub-batch i of n records cut by k
SubBatch(n, k, i) == [j \in 1..(Min(i * k, n) - (i - 1) * k) |-> (i - 1) * k + j]

\* a call that goes on issuing statements after one has failed
BatchMayIssueAlways(failures) == TRUE

\* a sub-batch is issued only while no statement of the call has failed
BatchMayIssue(failures) == failures = <<>>

\* what the call reports: the first error that occurred, or nil
BatchReturnErr(failures) == IF failures = <<>> THEN NoErr ELSE failures[1].err

\* the statement of the next sub-batch is issued; its keys are reserved in
\* the order of the records
BatchIssue ==
    /\ pc = "batch"
    /\ BatchMayIssue(local.failures)
    /\ local.issued < NumBatches(Len(local.records), local.k)
    /\ Cardinality(local.flying) < local.lanes
    /\ LET i == local.issued + 1
           recs == SubBatch(Len(local.records), local.k, i)
       IN  /\ stmts' = Append(stmts, [op |-> "Insert", batch |-> i, recs |-> recs,
                                      failed |-> Len(local.failures)])
           /\ nextId' = nextId + Len(recs)
           /\ local' = [local EXCEPT !.issued = i, !.flying = @ \cup {i},
                                     !.first = Append(@, nextId)]
    /\ UNCHANGED <<table, now, tx, txTable, terminals, pc, err, unitErr, pre, last, schema>>

\* the rows the statement of sub-batch i writes
BatchRows(i) ==
    {SessionCreateRow(local.records[stmts[i].recs[j]], local.first[i] + j - 1, now, FALSE) :
        j \in 1..Len(stmts[i].recs)}

\* the database answers the statement of sub-batch i: the rows are written
\* and the keys written back, or the statement fails
BatchAnswer ==
    /\ pc = "batch"
    /\ \E i \in local.flying, fault \in BatchFaults :
          /\ txTable' = IF fault = NoErr THEN txTable \cup BatchRows(i) ELSE txTable
          /\ local' = [local EXCEPT
                 !.flying = @ \ {i},
                 !.failures = IF fault = NoErr THEN @
                              ELSE Append(@, [batch |-> i, err |-> fault]),
                 !.keys = IF fault # NoErr THEN @
                          ELSE [p \in 1..Len(local.records) |->
                                  IF \E j \in 1..Len(stmts[i].recs) : stmts[i].recs[j] = p
                                  THEN local.first[i] + p - stmts[i].recs[1]
                                  ELSE @[p]]]
          /\ last' = [op |-> "Insert", batch |-> i, err |-> fault]
    /\ UNCHANGED <<table, nextId, now, tx, terminals, pc, err, unitErr, stmts, pre, schema>>

\* result = gormDb.CreateInBatches(batchUsers, 2) returns
BatchReturn ==
    /\ pc = "batch"
    /\ local.flying = {}
    /\ ~BatchMayIssue(local.failures)
          \/ local.issued = NumBatches(Len(local.records), local.k)
    /\ err' = BatchReturnErr(local.failures)
    /\ table' = IF BatchReturnErr(local.failures) = NoErr \/ SkipDefaultTransaction
                THEN txTable ELSE table
    /\ last' = [op |-> "CreateInBatches", err |-> BatchReturnErr(local.failures)]
    /\ pc' = "done"
    /\ UNCHANGED <<nextId, now, tx, txTable, terminals, unitErr, stmts, pre, local, schema>>

InitBatch ==
    /\ table \in {{}, {SeedRow(ExplicitID)}}
    /\ nextId = ExplicitID + 1
    /\ now = 1
    /\ tx = [h \in Handles |-> "none"]
    /\ txTable = table
    /\ terminals = [h \in Handles |-> <<>>]
    /\ pc = "batch"
    /\ err = NoErr
    /\ unitErr = NoErr
    /\ stmts = <<>>
    /\ pre = table
    /\ last = NoCall
    /\ schema = [exists |-> TRUE, cols |-> ShapeV1]
    /\ \E n \in 1..Len(BatchUsers), k \in 1..MaxBatchSize, lanes \in 1..Lanes :
          local = [records |-> SubSeq(BatchUsers, 1, n), k |-> k, lanes |-> lanes,
                   issued |-> 0, flying |-> {}, failures |-> <<>>, first |-> <<>>,
                   keys |-> [p \in 1..n |-> 0]]

NextBatch ==
    \/ BatchIssue
    \/ BatchAnswer
    \/ BatchReturn

SpecBatch == InitBatch /\ [][NextBatch]_vars

\* the places <<statement, position>> of the records in the statements issued
BatchPlaces == {<<i, j>> : i \in 1..Len(stmts), j \in 1..MaxBatchSize + 1}

\* C15: a CreateInBatches(records, k) that reports no error has issued
\* ceil(n/k) INSERT statements of at most k records each, which carry every
\* record once, in input order (6 records by 2: 3 statements of 2); every
\* record is a new row, and the keys written back rise with the input order.
C15_BatchedCreate ==
    /\ last.op \in {"Insert", "CreateInBatches"} =>
          \A i \in 1..Len(stmts) :
             Len(stmts[i].recs) >= 1 /\ Len(stmts[i].recs) <= local.k
    /\ (pc = "done" /\ last.op = "CreateInBatches" /\ err = NoErr) =>
          LET n == Len(local.records)
              at(pl) == stmts[pl[1]].recs[pl[2]]
              P == {pl \in BatchPlaces : pl[2] <= Len(stmts[pl[1]].recs)}
          IN  /\ Len(stmts) * local.k >= n
              /\ (Len(stmts) - 1) * local.k < n
              /\ \A p \in 1..n : Cardinality({pl \in P : at(pl) = p}) = 1
              /\ \A pl \in P : at(pl) \in 1..n
              /\ \A pl, ql \in P :
                    (pl[1] < ql[1] \/ (pl[1] = ql[1] /\ pl[2] < ql[2])) => at(pl) < at(ql)
              /\ (n = 6 /\ local.k = 2) =>
                    /\ Len(stmts) = 3
                    /\ \A i \in 1..3 : Len(stmts[i].recs) = 2
              /\ pre \subseteq table
              /\ Cardinality(table \ pre) = n
              /\ \A p \in 1..n :
                    /\ local.keys[p] > 0
                    /\ \E r \in table \ pre :
                          r.id = local.keys[p] /\ r.name = local.records[p].name
              /\ \A p, q \in 1..n : p < q => local.keys[p] < local.keys[q]

\* five records by two went out as 2, 2 and 1, and all five are rows
C15_Witness ==
    /\ pc = "done"
    /\ last.op = "CreateInBatches"
    /\ err = NoErr
    /\ Len(local.records) = 5
    /\ local.k = 2
    /\ Len(stmts) = 3
    /\ Len(stmts[3].recs) = 1
    /\ Cardinality(table \ pre) = 5
    /\ local.keys[5] = local.keys[1] + 4

\* C18: once a statement of a batched insert has failed no further sub-batch
\* is issued; the call reports the first error that occurred, and never
\* reports success when a sub-batch failed; with one statement under way at a
\* time or several.
C18_SubBatchFailure ==
    /\ last.op \in {"Insert", "CreateInBatches"} =>
          \A i \in 1..Len(stmts) : stmts[i].failed = 0
    /\ (pc = "done" /\ last.op = "CreateInBatches") =>
          /\ local.failures # <<>> => (err = local.failures[1].err /\ err # NoErr)
          /\ local.failures = <<>> => err = NoErr
          /\ (err = NoErr) = (Cardinality(table \ pre) = Len(local.records))

\* two statements were under way, both failed, the first failure's error was
\* reported and the third sub-batch was never issued
C18_Witness ==
    /\ pc = "done"
    /\ last.op = "CreateInBatches"
    /\ local.lanes = 2
    /\ Len(local.failures) = 2
    /\ local.failures[1].err = ErrTimeout
    /\ local.failures[2].err = ErrDriver
    /\ local.failures[1].batch = 2
    /\ err = ErrTimeout
    /\ Len(stmts) = 2
    /\ Len(local.records) = 6
    /\ local.k = 2
    /\ table = pre

(***************************************************************************)
(* testQuery's filters: a struct, a map, a struct with named fields, and a *)
(* map given inline.                                                       *)
(***************************************************************************)
\* a struct filter that turns every field into a condition, zero or not
StructCondsAll(u) ==
    {[col |-> c, op |-> "=", val |-> u[c]] : c \in Columns \ {"update_on", "is_deleted"}}

\* Where(&User{...}): a condition for each field that is not the zero value
StructConds(u) ==
    {[col |-> c, op |-> "=", val |-> u[c]] : c \in {d \in Columns : u[d] # ZeroUser[d]}}

\* Where(map[string]interface{}{...}): a condition for each entry
MapConds(m) == {[col |-> c, op |-> "=", val |-> m[c]] : c \in DOMAIN m}

\* Where(&User{...}, "Age"): a condition for each field named, zero or not
StructFieldConds(u, fields) == {[col |-> c, op |-> "=", val |-> u[c]] : c \in fields}

\* filters := map[string]interface{}{"Age": 0, "Name": "sharpe-skip-hook"}
Filters == [age |-> 0, name |-> "sharpe-skip-hook"]

\* result = gormDb.Where(filter).Find(&dest); if result.Error != nil { return }
FindWhere(kind, value, conds, var, next) ==
    LET rows == Matching(table, conds, FALSE)
        e == FindErr(rows)
    IN  /\ err' = e
        /\ pre' = table
        /\ local' = IF e = NoErr
                    THEN [local EXCEPT ![var] = rows,
                                       !.found = Append(@, [kind |-> kind, rows |-> rows])]
                    ELSE local
        /\ last' = [op |-> "Find", kind |-> kind, value |-> value, conds |-> conds,
                    err |-> e, rows |-> IF e = NoErr THEN rows ELSE {}]
        /\ pc' = IF e = NoErr THEN next ELSE "done"
        /\ UNCHANGED <<table, nextId, now, tx, txTable, terminals, unitErr, stmts, schema>>

\* result = gormDb.Where(&User{Age: 20}).Find(&whereAllUser)
QueryWhereStruct ==
    /\ pc = "q_struct"
    /\ FindWhere("struct", [ZeroUser EXCEPT !.age = 20],
                 StructConds([ZeroUser EXCEPT !.age = 20]), "whereAllUser", "q_struct0")

\* result = gormDb.Where(&User{Age: 0}).Find(&whereAllUser)
QueryWhereStructZero ==
    /\ pc = "q_struct0"
    /\ FindWhere("struct", [ZeroUser EXCEPT !.age = 0],
                 StructConds([ZeroUser EXCEPT !.age = 0]), "whereAllUser", "q_map")

\* result = gormDb.Where(filters).Find(&whereAllUser)
QueryWhereMap ==
    /\ pc = "q_map"
    /\ FindWhere("map", Filters, MapConds(Filters), "whereAllUser", "q_fields")

\* result = gormDb.Where(&User{Name: "lala"}, "Age").First(&ageUser); any error returns
QueryWhereFields ==
    /\ pc = "q_fields"
    /\ LET conds == StructFieldConds([ZeroUser EXCEPT !.name = "lala"], {"age"})
           rows == Matching(table, conds, FALSE)
           e == FetchOneErr(rows)
       IN  /\ err' = e
           /\ pre' = table
           /\ IF e = NoErr
              THEN \E r \in FetchOneRows("First", rows) :
                     /\ local' = [local EXCEPT !.ageUser = r]
                     /\ last' = [op |-> "First", kind |-> "fields", conds |-> conds,
                                 value |-> [ZeroUser EXCEPT !.name = "lala"],
                                 err |-> e, rows |-> {r}]
                     /\ pc' = "q_inline"
              ELSE /\ local' = local
                   /\ last' = [op |-> "First", kind |-> "fields", conds |-> conds,
                               value |-> [ZeroUser EXCEPT !.name = "lala"],
                               err |-> e, rows |-> {}]
                   /\ pc' = "done"
    /\ UNCHANGED <<table, nextId, now, tx, txTable, terminals, unitErr, stmts, schema>>

\* result = gormDb.Find(&findAllUser, filters)
QueryFindInline ==
    /\ pc = "q_inline"
    /\ FindWhere("map", Filters, MapConds(Filters), "findAllUser", "done")

\* rows with keys 1 .. OrderRows, of age 0 or 20, named as skipUser or "lala"
FilterTables ==
    {{OrderRow(i, f[i].name, f[i].age) : i \in S} :
        S \in SUBSET (1..OrderRows),
        f \in [1..OrderRows -> [name : {"sharpe-skip-hook", "lala"}, age : {0, 20}]]}

InitFilter ==
    /\ table \in FilterTables
    /\ nextId = OrderRows + 1
    /\ now = 1
    /\ tx = [h \in Handles |-> "none"]
    /\ txTable = {}
    /\ terminals = [h \in Handles |-> <<>>]
    /\ pc = "q_struct"
    /\ err = NoErr
    /\ unitErr = NoErr
    /\ stmts = <<>>
    /\ pre = table
    /\ last = NoCall
    /\ schema = [exists |-> TRUE, cols |-> ShapeV1]
    /\ local = [whereAllUser |-> {}, ageUser |-> ZeroUser, findAllUser |-> {},
                found |-> <<>>]

NextFilter ==
    \/ QueryWhereStruct
    \/ QueryWhereStructZero
    \/ QueryWhereMap
    \/ QueryWhereFields
    \/ QueryFindInline

SpecFilter == InitFilter /\ [][NextFilter]_vars

\* C16: a Find filtered by a struct returns the rows equal to the struct in
\* each of its non-zero fields, so with User{Age: 0} it returns every row; a
\* Find filtered by a map returns the rows equal to the map in every entry,
\* so with {Age: 0, Name: n} exactly the rows of age 0 named n.
C16_StructVersusMapFilter ==
    /\ (last.op = "Find" /\ last.kind = "struct") =>
          /\ last.err = NoErr
          /\ last.rows = {r \in table : \A c \in Columns :
                             last.value[c] # ZeroUser[c] => r[c] = last.value[c]}
          /\ last.value.age = 0 => last.rows = table
          /\ last.value.age = 20 => last.rows = {r \in table : r.age = 20}
    /\ (last.op = "Find" /\ last.kind = "map") =>
          /\ last.err = NoErr
          /\ last.rows = {r \in table : r.age = 0 /\ r.name = "sharpe-skip-hook"}

\* the struct with Age 0 returned every row, of both ages, and the map after
\* it only the rows of age 0 named as skipUser, with rows of age 0 left out
C16_Witness ==
    /\ pc = "q_fields"
    /\ last.kind = "map"
    /\ Len(local.found) = 3
    /\ local.found[2].rows = table
    /\ \E r \in table : r.age = 20
    /\ last.rows # {}
    /\ \E r \in table : r.age = 0 /\ r \notin last.rows

(***************************************************************************)
(* initTable run by several processes at once against one database: each   *)
(* process's HasTable, CreateTable and AutoMigrate is a step of its own.   *)
(***************************************************************************)
\* processes running initTable at the same time
NumProcs == 2

Procs == 1..NumProcs

\* process p: if !m.HasTable(&User{}) {
ProcHasTable(p) ==
    /\ pc[p] = "has"
    /\ local' = [local EXCEPT !.has[p] = HasTable(schema)]
    /\ pc' = [pc EXCEPT ![p] = IF InitTableCreates(HasTable(schema)) THEN "create"
                                ELSE AfterCreate(local.version)]
    /\ last' = [op |-> "HasTable", proc |-> p, has |-> HasTable(schema), err |-> NoErr]
    /\ UNCHANGED <<table, nextId, now, tx, txTable, terminals, err, unitErr, stmts, pre,
                   schema>>

\* process p: err := m.CreateTable(&User{}); if err != nil { return err }
ProcCreateTable(p) ==
    /\ pc[p] = "create"
    /\ schema' = CreateTable(schema, Shape(local.version))
    /\ err' = [err EXCEPT ![p] = CreateTableErr(schema)]
    /\ local' = [local EXCEPT !.creates = Append(@, [proc |-> p, existed |-> schema.exists,
                                                      err |-> CreateTableErr(schema)])]
    /\ pc' = [pc EXCEPT ![p] = IF CreateTableErr(schema) # NoErr THEN "ret"
                                ELSE AfterCreate(local.version)]
    /\ last' = [op |-> "CreateTable", proc |-> p, has |-> local.has[p],
                err |-> CreateTableErr(schema)]
    /\ UNCHANGED <<table, nextId, now, tx, txTable, terminals, unitErr, stmts, pre>>

\* process p: return m.AutoMigrate(&User{})
ProcAutoMigrate(p) ==
    /\ pc[p] = "auto"
    /\ schema' = AutoMigrate(schema, Shape(local.version))
    /\ err' = [err EXCEPT ![p] = NoErr]
    /\ pc' = [pc EXCEPT ![p] = "ret"]
    /\ last' = [op |-> "AutoMigrate", proc |-> p, has |-> local.has[p], err |-> NoErr]
    /\ UNCHANGED <<table, nextId, now, tx, txTable, terminals, unitErr, stmts, pre, local>>

InitProcs ==
    /\ schema \in StartSchemas
    /\ table \in (IF schema.exists THEN SeedTables ELSE {{}})
    /\ nextId = ExplicitID + SeedSpan + 1
    /\ now = 1
    /\ tx = [h \in Handles |-> "none"]
    /\ txTable = {}
    /\ terminals = [h \in Handles |-> <<>>]
    /\ pc = [p \in Procs |-> "has"]
    /\ err = [p \in Procs |-> NoErr]
    /\ unitErr = NoErr
    /\ stmts = <<>>
    /\ pre = table
    /\ last = NoCall
    /\ \E v \in Versions :
          local = [version |-> v, start |-> schema, has |-> [p \in Procs |-> FALSE],
                   creates |-> <<>>]

NextProcs ==
    \E p \in Procs :
       \/ ProcHasTable(p)
       \/ ProcCreateTable(p)
       \/ ProcAutoMigrate(p)

SpecProcs == InitProcs /\ [][NextProcs]_vars

\* C19: processes running initTable at once on a database without the table
\* all return nil, the table is created once, and CreateTable is never issued
\* for a table that exists.
C19_ConcurrentInitTable ==
    ~local.start.exists =>
        /\ \A i \in 1..Len(local.creates) : ~local.creates[i].existed
        /\ \A p \in Procs : pc[p] = "ret" => err[p] = NoErr
        /\ (\A p \in Procs : pc[p] = "ret") =>
              Cardinality({i \in 1..Len(local.creates) : local.creates[i].err = NoErr}) = 1

(***************************************************************************)
(* testDelete, statement by statement.                                     *)
(***************************************************************************)
\* the keys of the rows testDelete may find
TestDeleteIds == {3, 10, 217}

TestDeleteTables ==
    {{StoredRow(i, f[i]) : i \in S} : S \in SUBSET TestDeleteIds, f \in [TestDeleteIds -> {0, 1}]}

\* result := gormDb.Model(&User{}).First(&firstUser): RecordNotFound is
\* printed and testDelete goes on; any other error returns
TestDeleteFirst ==
    /\ pc = "d_first"
    /\ \E fault \in Faults :
          LET rows == Matching(table, ModelConds(local.firstUser), FALSE)
              e == IF fault # NoErr THEN fault ELSE FetchOneErr(rows)
          IN  /\ err' = e
              /\ pre' = table
              /\ IF e = NoErr
                 THEN \E r \in FetchOneRows("First", rows) :
                        local' = [local EXCEPT !.firstUser = r, !.firstErr = e]
                 ELSE local' = [local EXCEPT !.firstErr = e]
              /\ last' = [op |-> "First", err |-> e]
              /\ pc' = IF e \in {NoErr, ErrRecordNotFound} THEN "d_record" ELSE "done"
    /\ UNCHANGED <<table, nextId, now, tx, txTable, terminals, unitErr, stmts, schema>>

\* a Delete given an empty record in place of the one read
DeleteRecordModelEmpty(firstUser) == ZeroUser

\* Delete(firstUser): the record the Delete is given
DeleteRecordModel(firstUser) == firstUser

\* result = gormDb.Where(wheres).Delete(&m, inline...); if result.Error != nil { return }
TestDeleteCall(call, m, wheres, next) ==
    LET conds == wheres \cup ModelConds(m)
        e == UpdateErr(conds, FALSE)
    IN  /\ err' = e
        /\ pre' = table
        /\ table' = IF e = NoErr THEN DeleteRows(table, conds, now) ELSE table
        /\ last' = [op |-> "Delete", call |-> call, model |-> m.id, wheres |-> wheres,
                    conds |-> conds, err |-> e,
                    affected |-> IF e = NoErr
                                 THEN Cardinality(Matching(table, conds, FALSE))
                                 ELSE 0]
        /\ pc' = IF e = NoErr THEN next ELSE "done"
        /\ UNCHANGED <<nextId, now, tx, txTable, terminals, unitErr, stmts, schema, local>>

\* result = gormDb.Where("is_deleted = ?", 0).Delete(firstUser)
TestDeleteRecord ==
    /\ pc = "d_record"
    /\ TestDeleteCall("record", DeleteRecordModel(local.firstUser), WhereLive, "d_key")

\* result = gormDb.Delete(&User{}, 10)
TestDeleteByKey ==
    /\ pc = "d_key"
    /\ TestDeleteCall("key", ZeroUser, PkEq(10), "d_batch")

\* result = gormDb.Delete(&User{}, "is_deleted = ?", 0)
TestDeleteBatch ==
    /\ pc = "d_batch"
    /\ TestDeleteCall("batch", ZeroUser, WhereLive, "d_restore")

\* result = gormDb.Model(&User{}).Unscoped().Where("is_deleted != ?", 0).Updates(map{"is_deleted": 0})
TestDeleteRestore ==
    /\ pc = "d_restore"
    /\ err' = UpdateErr(WhereDeleted, FALSE)
    /\ pre' = table
    /\ table' = UpdateRows(table, WhereDeleted, TRUE, UpdateSetMap([is_deleted |-> 0]), now)
    /\ last' = [op |-> "UpdatesMap", conds |-> WhereDeleted, err |-> UpdateErr(WhereDeleted, FALSE),
                affected |-> RowsAffected(table, WhereDeleted, TRUE,
                                          UpdateSetMap([is_deleted |-> 0]), now)]
    /\ pc' = "done"
    /\ UNCHANGED <<nextId, now, tx, txTable, terminals, unitErr, stmts, schema, local>>

InitTestDelete ==
    /\ table \in TestDeleteTables
    /\ nextId = 218
    /\ now \in 1..(1 + MaxClock)
    /\ tx = [h \in Handles |-> "none"]
    /\ txTable = {}
    /\ terminals = [h \in Handles |-> <<>>]
    /\ pc = "d_first"
    /\ err = NoErr
    /\ unitErr = NoErr
    /\ stmts = <<>>
    /\ pre = table
    /\ last = NoCall
    /\ schema = [exists |-> TRUE, cols |-> ShapeV2]
    /\ local = [firstUser |-> ZeroUser, firstErr |-> NoErr]

NextTestDelete ==
    \/ TestDeleteFirst
    \/ TestDeleteRecord
    \/ TestDeleteByKey
    \/ TestDeleteBatch
    \/ TestDeleteRestore

SpecTestDelete == InitTestDelete /\ [][NextTestDelete]_vars

\* C20: the Delete(firstUser) of testDelete marks at most one row, the one
\* First read; when First reported RecordNotFound, firstUser has no key and
\* the Delete marks no row.
C20_SingleRecordDelete ==
    (last.op = "Delete" /\ last.call = "record") =>
        /\ last.err = NoErr
        /\ last.affected <= 1
        /\ Cardinality(pre \ table) <= 1
        /\ Ids(table) = Ids(pre)
        /\ \A r \in pre \ table : r.id = local.firstUser.id /\ r.is_deleted = 0
        /\ local.firstErr = NoErr =>
              /\ last.affected = 1
              /\ RowOf(table, local.firstUser.id).is_deleted # 0
        /\ local.firstErr = ErrRecordNotFound =>
              /\ local.firstUser.id = 0
              /\ last.model = 0
              /\ last.affected = 0
              /\ table = pre

\* First found nothing in a table of soft-deleted rows, execution went on,
\* and the Delete with the keyless record changed no row
C20_Witness ==
    /\ last.op = "Delete"
    /\ last.call = "record"
    /\ local.firstErr = ErrRecordNotFound
    /\ local.firstUser = ZeroUser
    /\ last.conds = WhereLive
    /\ table # {}
    /\ table = pre
    /\ last.affected = 0

====
